---- MODULE Spec2Model ----
(***************************************************************************)
(* GameSessionManager of test-youtu-agent/sample-python.py: the registry   *)
(* (create_session), the scoped mutator (session_context) and the update   *)
(* helper (update_player_stats), called by concurrent asyncio tasks.       *)
(*                                                                         *)
(* A step is the code a task runs between two suspension points.           *)
(* create_session is modelled in two steps, the lock's acquisition and the *)
(* locked block with the release, so that the lock is seen held; the       *)
(* locked block itself never suspends.  update_player_stats never suspends *)
(* and is one step.  A caller's own scope body suspends once, between its  *)
(* read and its write of the counter field (experience).                   *)
(*                                                                         *)
(* A session keeps its id, state, the four PlayerStats numbers, created_at *)
(* and last_activity; the player's name, inventory and position and        *)
(* PlayerStats.last_updated are written once or never read and are left    *)
(* out.  Each task makes one call; tasks are numbered in call order.       *)
(*                                                                         *)
(* create_safe_response of src/semantic-analysis-fix.py is a function of   *)
(* its argument alone.  SpecJson draws the argument from the bounded JSON  *)
(* values and applies the function in one step.  A JSON text is the        *)
(* sequence of its tokens.  The argument is what dataclasses.asdict        *)
(* produced, so the dataclass branches of the serializer are left out.     *)
(***************************************************************************)
EXTENDS Integers, FiniteSets, Sequences, TLC

\* ---------------------------------------------------------------- bounds
NumTasks == 3
MaxCapacity == 2
MaxClock == 1
MaxDepth == 1
MaxLen == 1

\* ------------------------------------------------------ program constants
default_health == 100
default_mana == 50
default_experience == 0
default_level == 1

Tasks == 1..NumTasks
SessionIds == {"a", "b"}
NoSession == [state |-> "absent"]
NoTask == 0

\* The stats dictionaries callers pass (every key optional): none, a valid
\* one, one with a negative health beside a valid mana, one with a level of 0
\* beside a valid mana.
StatDicts ==
    { <<>>,
      [health |-> 20, experience |-> 5, level |-> 2],
      [health |-> -1, mana |-> 7],
      [mana |-> 7, level |-> 0] }

VARIABLES
    max_concurrent_sessions,  \* GameSessionManager.max_concurrent_sessions
    active_sessions,          \* GameSessionManager.active_sessions: id -> session
    session_stats,            \* GameSessionManager.session_stats
    lock,                     \* GameSessionManager._lock: the task holding it
    now,                      \* the clock datetime.now() reads
    tasks,                    \* the callers: position, call in progress, locals
    returned,                 \* the calls that have ended, with what they handed back
    response_data,            \* create_safe_response: its argument
    response                  \* create_safe_response: what it handed back

json_vars == <<response_data, response>>

vars == <<max_concurrent_sessions, active_sessions, session_stats, lock, now, tasks,
          returned, response_data, response>>

IdleTask == [pc |-> "idle", op |-> "none", sid |-> "none", data |-> <<>>, local |-> 0]
DoneTask == [IdleTask EXCEPT !.pc = "done"]

\* a call that has ended: what was called, on which id, how the scope's body
\* ended and what the caller got; for a create that handed back a session,
\* the stats dictionary it was given
Call(op, id, d, outcome, result) ==
    [op |-> op, sid |-> id, data |-> d, outcome |-> outcome, result |-> result,
     left |-> "none"]

\* a scope that has ended, with the state its caller finds the session in
ScopeCall(op, id, outcome, result, left) ==
    [Call(op, id, <<>>, outcome, result) EXCEPT !.left = left]

Return(call) ==
    returned' = IF call \in DOMAIN returned
                THEN [returned EXCEPT ![call] = @ + 1]
                ELSE returned @@ (call :> 1)

Returned == DOMAIN returned

Times(call) == IF call \in Returned THEN returned[call] ELSE 0

\* Callers are interchangeable: they are numbered in the order of their calls.
Starts(t) == tasks[t].pc = "idle" /\ \A u \in Tasks : u < t => tasks[u].pc # "idle"

\* dict.get(key, default)
Get(d, k, default) == IF k \in DOMAIN d THEN d[k] ELSE default

Registered(sessions) == {i \in SessionIds : sessions[i] # NoSession}

\* PlayerStats.__post_init__ without its test of the level
PlayerStatsValid_HealthOnly(health, level) == ~(health < 0)

\* PlayerStats.__post_init__
PlayerStatsValid(health, level) == ~(health < 0) /\ ~(level < 1)

\* the capacity test of create_session with > for >=
AtCapacity_OffByOne(sessions, bound) == Cardinality(Registered(sessions)) > bound

\* the capacity test of create_session
AtCapacity(sessions, bound) == Cardinality(Registered(sessions)) >= bound

\* the session create_session builds
NewSession(id, health, mana, experience, level, clock) ==
    [id |-> id, state |-> "active", health |-> health, mana |-> mana,
     experience |-> experience, level |-> level,
     created_at |-> clock, last_activity |-> clock]

\* create_session validating the stats before it looks the id up
create_session_ValidatesFirst(sessions, stats, bound, id, d, clock) ==
    LET health == Get(d, "health", default_health)
        mana == Get(d, "mana", default_mana)
        experience == Get(d, "experience", default_experience)
        level == Get(d, "level", default_level)
    IN  IF AtCapacity(sessions, bound)
        THEN [sessions |-> sessions, stats |-> stats, result |-> "RuntimeError"]
        ELSE IF ~PlayerStatsValid(health, level)
        THEN [sessions |-> sessions,
              stats |-> [stats EXCEPT !.failed = @ + 1],
              result |-> "ValueError"]
        ELSE IF id \in Registered(sessions)
        THEN [sessions |-> sessions, stats |-> stats, result |-> "existing"]
        ELSE [sessions |->
                [sessions EXCEPT ![id] = NewSession(id, health, mana, experience, level, clock)],
              stats |-> [stats EXCEPT !.created = @ + 1, !.active = @ + 1],
              result |-> "created"]

\* create_session counting the session as created before it validates the stats
create_session_CountsEarly(sessions, stats, bound, id, d, clock) ==
    LET health == Get(d, "health", default_health)
        mana == Get(d, "mana", default_mana)
        experience == Get(d, "experience", default_experience)
        level == Get(d, "level", default_level)
        counted == [stats EXCEPT !.created = @ + 1, !.active = @ + 1]
    IN  IF AtCapacity(sessions, bound)
        THEN [sessions |-> sessions, stats |-> stats, result |-> "RuntimeError"]
        ELSE IF id \in Registered(sessions)
        THEN [sessions |-> sessions, stats |-> stats, result |-> "existing"]
        ELSE IF PlayerStatsValid(health, level)
        THEN [sessions |->
                [sessions EXCEPT ![id] = NewSession(id, health, mana, experience, level, clock)],
              stats |-> counted,
              result |-> "created"]
        ELSE [sessions |-> sessions,
              stats |-> [counted EXCEPT !.failed = @ + 1],
              result |-> "ValueError"]

\* create_session, from the lock's acquisition to its release
create_session(sessions, stats, bound, id, d, clock) ==
    LET health == Get(d, "health", default_health)
        mana == Get(d, "mana", default_mana)
        experience == Get(d, "experience", default_experience)
        level == Get(d, "level", default_level)
    IN  IF AtCapacity(sessions, bound)
        THEN [sessions |-> sessions, stats |-> stats, result |-> "RuntimeError"]
        ELSE IF id \in Registered(sessions)
        THEN [sessions |-> sessions, stats |-> stats, result |-> "existing"]
        ELSE IF PlayerStatsValid(health, level)
        THEN [sessions |->
                [sessions EXCEPT ![id] = NewSession(id, health, mana, experience, level, clock)],
              stats |-> [stats EXCEPT !.created = @ + 1, !.active = @ + 1],
              result |-> "created"]
        ELSE [sessions |-> sessions,
              stats |-> [stats EXCEPT !.failed = @ + 1],
              result |-> "ValueError"]

\* session_context up to its yield writing created_at for last_activity
session_enter_ResetsCreated(s, clock) == [s EXCEPT !.created_at = clock]

\* session_context up to its yield
session_enter(s, clock) == [s EXCEPT !.last_activity = clock]

\* session_context after its yield with a finally clause that does not test
\* the state
session_exit_AlwaysCompletes(s, outcome) == [s EXCEPT !.state = "completed"]

\* session_context after its yield with a finally clause that tests whether
\* this body raised instead of the session's state
session_exit_ForgetsError(s, outcome) ==
    IF outcome = "raise" THEN [s EXCEPT !.state = "error"]
    ELSE [s EXCEPT !.state = "completed"]

\* session_context after its yield with the except clause alone
session_exit_NoFinally(s, outcome) ==
    IF outcome = "raise" THEN [s EXCEPT !.state = "error"] ELSE s

\* session_context after its yield: the except clause, then the finally clause
session_exit(s, outcome) ==
    LET handled == IF outcome = "raise" THEN [s EXCEPT !.state = "error"] ELSE s
    IN  IF handled.state # "error"
        THEN [handled EXCEPT !.state = "completed"]
        ELSE handled

\* what session_context hands to its caller when the body ends
scope_result(outcome) ==
    CASE outcome = "return" -> "ok"
      [] outcome = "raise" -> "raised"
      [] outcome = "cancel" -> "cancelled"

\* a caller's body: read the counter field ...
body_read(s) == s.experience

\* ... and, after a suspension, write back the value read plus one
body_write(s, local) == [s EXCEPT !.experience = local + 1]

\* the body of update_player_stats writing the patch into the stored stats
\* before it validates them
update_body_PartialWrite(s, d, clock) ==
    LET health == Get(d, "health", s.health)
        mana == Get(d, "mana", s.mana)
        experience == Get(d, "experience", s.experience)
        level == Get(d, "level", s.level)
    IN  [session |-> [s EXCEPT !.health = health, !.mana = mana,
                               !.experience = experience, !.level = level],
         outcome |-> IF PlayerStatsValid(health, level) THEN "return" ELSE "raise"]

\* the body of update_player_stats taking the defaults of PlayerStats, not the
\* current values, for the fields the patch does not name
update_body_DefaultsForMissing(s, d, clock) ==
    LET health == Get(d, "health", default_health)
        mana == Get(d, "mana", default_mana)
        experience == Get(d, "experience", default_experience)
        level == Get(d, "level", default_level)
    IN  IF PlayerStatsValid(health, level)
        THEN [session |-> [s EXCEPT !.health = health, !.mana = mana,
                                    !.experience = experience, !.level = level],
              outcome |-> "return"]
        ELSE [session |-> s, outcome |-> "raise"]

\* the body of update_player_stats: the patched stats, or a failed validation
update_body(s, d, clock) ==
    LET health == Get(d, "health", s.health)
        mana == Get(d, "mana", s.mana)
        experience == Get(d, "experience", s.experience)
        level == Get(d, "level", s.level)
    IN  IF PlayerStatsValid(health, level)
        THEN [session |-> [s EXCEPT !.health = health, !.mana = mana,
                                    !.experience = experience, !.level = level],
              outcome |-> "return"]
        ELSE [session |-> s, outcome |-> "raise"]

\* update_player_stats on a registered session
update_player_stats(s, d, clock) ==
    LET body == update_body(session_enter(s, clock), d, clock)
    IN  [session |-> session_exit(body.session, body.outcome),
         outcome |-> body.outcome,
         result |-> IF scope_result(body.outcome) = "ok" THEN "True" ELSE "False"]

\* the sum over the sessions of ids of the seconds since their created_at
RECURSIVE total_time(_, _, _)
total_time(sessions, ids, clock) ==
    IF ids = {} THEN 0
    ELSE LET i == CHOOSE i \in ids : TRUE
         IN  (clock - sessions[i].created_at) + total_time(sessions, ids \ {i}, clock)

\* a quotient num / den
Quotient(num, den) == [num |-> num, den |-> den]

\* _calculate_average_session_time counting the sessions in state active only
calculate_average_session_time_ActiveOnly(sessions, clock) ==
    LET counted == {i \in Registered(sessions) : sessions[i].state = "active"}
        count == Cardinality(counted)
    IN  IF count > 0
        THEN Quotient(total_time(sessions, counted, clock), 60 * count)
        ELSE Quotient(0, 1)

\* _calculate_average_session_time: total_seconds() / 60 / count over the
\* sessions that have a created_at (a datetime is never falsy), 0.0 without any
calculate_average_session_time(sessions, clock) ==
    IF Registered(sessions) = {}
    THEN Quotient(0, 1)
    ELSE LET counted == {i \in Registered(sessions) : "created_at" \in DOMAIN sessions[i]}
             count == Cardinality(counted)
         IN  IF count > 0
             THEN Quotient(total_time(sessions, counted, clock), 60 * count)
             ELSE Quotient(0, 1)

\* _get_level_distribution: level -> number of sessions at that level
get_level_distribution(sessions) ==
    [l \in {sessions[i].level : i \in Registered(sessions)} |->
        Cardinality({i \in Registered(sessions) : sessions[i].level = l})]

\* get_session_summary (without its memory estimate); it reads and writes nothing
get_session_summary(sessions, stats, clock) ==
    [statistics |-> stats,
     active_count |-> Cardinality({i \in Registered(sessions) : sessions[i].state = "active"}),
     average_session_time |-> calculate_average_session_time(sessions, clock),
     player_levels |-> get_level_distribution(sessions)]

\* ------------------------------------------------------------ JSON values
\* the values create_safe_response is given: None, float('nan'), a number, a
\* boolean, a string, a list, a dictionary, or a value json cannot encode
Null == [kind |-> "null"]
NaN == [kind |-> "nan"]
Num(n) == [kind |-> "num", val |-> n]
Bool(b) == [kind |-> "bool", val |-> b]
Str(s) == [kind |-> "str", val |-> s]
List(items) == [kind |-> "list", items |-> items]
Dict(fields) == [kind |-> "dict", fields |-> fields]
Unencodable == [kind |-> "other"]

Strings == {"None", " "}
Leaves == {Null, NaN, Num(1), Unencodable} \cup {Str(s) : s \in Strings}
InnerKeys == {"k"}
TopKeys == {"complexity_score", "analysis_metadata", "content"}

\* the values nested at most depth deep, lists of at most MaxLen items
RECURSIVE Values(_)
Values(depth) ==
    IF depth = 0 THEN Leaves
    ELSE LET inner == Values(depth - 1)
         IN  inner
             \cup {List(items) : items \in UNION {[1..n -> inner] : n \in 0..MaxLen}}
             \cup {Dict(fields) : fields \in UNION {[K -> inner] : K \in SUBSET InnerKeys}}

\* the dictionaries create_safe_response is called with
Inputs == {Dict(fields) : fields \in UNION {[K -> Values(MaxDepth)] : K \in SUBSET TopKeys}}

\* str.strip on the strings above
strip(s) == IF s = " " THEN "" ELSE s

\* clean_value of safe_serialize_semantic_analysis
RECURSIVE clean_value(_)
clean_value(value) ==
    CASE value.kind = "null" -> Null
      [] value.kind = "dict" ->
            LET kept == {k \in DOMAIN value.fields :
                            clean_value(value.fields[k]).kind # "null"}
            IN  Dict([k \in kept |-> clean_value(value.fields[k])])
      [] value.kind = "list" ->
            LET cleaned == [i \in 1..Len(value.items) |-> clean_value(value.items[i])]
            IN  List(SelectSeq(cleaned, LAMBDA item : item.kind # "null"))
      [] value.kind = "nan" -> Num(0)
      [] value.kind = "str" -> Str(strip(value.val))
      [] OTHER -> value

\* safe_serialize_semantic_analysis on a dictionary without dataclass values:
\* complexity_score, confidence_metrics and analysis_metadata are stored
\* whatever their cleaned value, the other keys unless it is None
safe_serialize_semantic_analysis(semantic_data) ==
    LET cleaned_value(k) == clean_value(semantic_data.fields[k])
        kept == {k \in DOMAIN semantic_data.fields :
                    \/ k \in {"complexity_score", "confidence_metrics", "analysis_metadata"}
                    \/ cleaned_value(k).kind # "null"}
    IN  Dict([k \in kept |->
                IF k = "analysis_metadata" /\ cleaned_value(k).kind = "dict"
                THEN LET meta == cleaned_value(k).fields
                     IN  Dict([m \in {m \in DOMAIN meta : meta[m].kind # "null"} |-> meta[m]])
                ELSE cleaned_value(k)])

\* whether json.dumps encodes the value: JSONEncoder.default raises TypeError
\* on a value that is none of the JSON types
RECURSIVE Encodable(_)
Encodable(value) ==
    CASE value.kind = "other" -> FALSE
      [] value.kind = "list" -> \A i \in 1..Len(value.items) : Encodable(value.items[i])
      [] value.kind = "dict" -> \A k \in DOMAIN value.fields : Encodable(value.fields[k])
      [] OTHER -> TRUE

\* the tokens of a JSON text
Token(tok) == [tok |-> tok]
ValueToken(tok, val) == [tok |-> tok, val |-> val]

RECURSIVE dumps(_)
RECURSIVE dumps_items(_)
RECURSIVE dumps_fields(_, _)

\* json.dumps of the items of a list, in order
dumps_items(items) ==
    IF items = <<>> THEN <<>>
    ELSE dumps(Head(items)) \o dumps_items(Tail(items))

\* json.dumps of the entries of a dictionary with the given keys
dumps_fields(fields, keys) ==
    IF keys = {} THEN <<>>
    ELSE LET k == CHOOSE k \in keys : TRUE
         IN  <<ValueToken("key", k)>> \o dumps(fields[k]) \o dumps_fields(fields, keys \ {k})

\* json.dumps of an encodable value: None is written null, NaN is written NaN
dumps(value) ==
    CASE value.kind = "null" -> <<Token("null")>>
      [] value.kind = "nan" -> <<Token("NaN")>>
      [] value.kind = "num" -> <<ValueToken("number", value.val)>>
      [] value.kind = "bool" -> <<ValueToken("boolean", value.val)>>
      [] value.kind = "str" -> <<ValueToken("string", value.val)>>
      [] value.kind = "list" -> <<Token("[")>> \o dumps_items(value.items) \o <<Token("]")>>
      [] value.kind = "dict" ->
            <<Token("{")>> \o dumps_fields(value.fields, DOMAIN value.fields) \o <<Token("}")>>

\* the fallback cleaning of create_safe_response: "None" in quotes becomes ""
replace_None(text) ==
    [i \in 1..Len(text) |->
        IF text[i].tok = "string" /\ text[i].val = "None"
        THEN ValueToken("string", "")
        ELSE text[i]]

\* dict.get
get(d, k, default) == IF k \in DOMAIN d.fields THEN d.fields[k] ELSE default

\* the emergency fallback of create_safe_response
fallback_response(data) ==
    Dict([content |-> get(data, "content", Str("")),
          backend |-> get(data, "backend", Str("unknown")),
          success |-> get(data, "success", Bool(TRUE)),
          error |-> Null,
          metadata |-> Dict([serialization_fallback |-> Bool(TRUE),
                             original_error |-> Str("TypeError")])])

\* what a call has handed back: a JSON text, or the exception it raised
NoResponse == [outcome |-> "none"]
Returns(text, path) == [outcome |-> "returned", text |-> text, path |-> path]
Raises(error) == [outcome |-> "raised", error |-> error]

\* create_safe_response
create_safe_response(data) ==
    LET cleaned_data == safe_serialize_semantic_analysis(data)
    IN  IF Encodable(cleaned_data)
        THEN Returns(replace_None(dumps(cleaned_data)), "try")
        ELSE IF Encodable(fallback_response(data))
        THEN Returns(dumps(fallback_response(data)), "except")
        ELSE Raises("TypeError")

\* validate_response_format: json.loads reads a null token as None and
\* check_none_values rejects a None at any depth
validate_response_format(text) == \A i \in 1..Len(text) : text[i].tok # "null"

\* GameSessionManager.__init__ and the callers before their calls
InitManager ==
    /\ max_concurrent_sessions \in 1..MaxCapacity
    /\ active_sessions = [i \in SessionIds |-> NoSession]
    /\ session_stats = [created |-> 0, active |-> 0, completed |-> 0, failed |-> 0]
    /\ lock = NoTask
    /\ now = 0
    /\ tasks = [t \in Tasks |-> IdleTask]
    /\ returned = <<>>

Init ==
    /\ InitManager
    /\ response_data = Dict(<<>>)
    /\ response = NoResponse

\* time passes
Tick ==
    /\ now < MaxClock
    /\ now' = now + 1
    /\ UNCHANGED <<max_concurrent_sessions, active_sessions, session_stats, lock, tasks,
                   returned>>
    /\ UNCHANGED json_vars

\* a task calls create_session; async with self._lock: entry
CreateAcquire(t, id, d) ==
    /\ Starts(t)
    /\ lock = NoTask
    /\ lock' = t
    /\ tasks' = [tasks EXCEPT ![t] = [@ EXCEPT !.pc = "create_locked", !.op = "create",
                                               !.sid = id, !.data = d]]
    /\ UNCHANGED <<max_concurrent_sessions, active_sessions, session_stats, now, returned>>
    /\ UNCHANGED json_vars

\* the locked block of create_session with a lock that is released by the
\* return statements only
CreateBody_KeepsLockOnError(t) ==
    /\ tasks[t].pc = "create_locked"
    /\ LET r == create_session(active_sessions, session_stats, max_concurrent_sessions,
                               tasks[t].sid, tasks[t].data, now)
       IN  /\ active_sessions' = r.sessions
           /\ session_stats' = r.stats
           /\ Return(Call("create", tasks[t].sid,
                           IF r.result \in {"created", "existing"} THEN tasks[t].data ELSE <<>>,
                           "none", r.result))
           /\ lock' = IF r.result \in {"created", "existing"} THEN NoTask ELSE t
    /\ tasks' = [tasks EXCEPT ![t] = DoneTask]
    /\ UNCHANGED <<max_concurrent_sessions, now>>
    /\ UNCHANGED json_vars

\* the locked block of create_session and the lock's release
CreateBody(t) ==
    /\ tasks[t].pc = "create_locked"
    /\ LET r == create_session(active_sessions, session_stats, max_concurrent_sessions,
                               tasks[t].sid, tasks[t].data, now)
       IN  /\ active_sessions' = r.sessions
           /\ session_stats' = r.stats
           /\ Return(Call("create", tasks[t].sid,
                           IF r.result \in {"created", "existing"} THEN tasks[t].data ELSE <<>>,
                           "none", r.result))
    /\ tasks' = [tasks EXCEPT ![t] = DoneTask]
    /\ lock' = NoTask
    /\ UNCHANGED <<max_concurrent_sessions, now>>
    /\ UNCHANGED json_vars

\* async with session_context(id) by a caller whose body reads the counter
\* field and suspends: the entry and the body up to its suspension
ScopeEnter(t, id) ==
    /\ Starts(t)
    /\ IF id \in Registered(active_sessions)
       THEN /\ active_sessions' = [active_sessions EXCEPT ![id] = session_enter(@, now)]
            /\ tasks' = [tasks EXCEPT ![t] = [@ EXCEPT !.pc = "body", !.op = "scope",
                                                       !.sid = id,
                                                       !.local = body_read(active_sessions[id])]]
            /\ UNCHANGED returned
       ELSE /\ tasks' = [tasks EXCEPT ![t] = DoneTask]
            /\ Return(Call("scope", id, <<>>, "none", "NotFound"))
            /\ UNCHANGED active_sessions
    /\ UNCHANGED <<max_concurrent_sessions, session_stats, lock, now>>
    /\ UNCHANGED json_vars

\* the body resumes: it writes the value it read plus one and returns, or it
\* raises, or it is cancelled where it was suspended; then session_context exits
ScopeExit(t, outcome) ==
    /\ tasks[t].pc = "body"
    /\ LET s == active_sessions[tasks[t].sid]
           after == IF outcome = "return" THEN body_write(s, tasks[t].local) ELSE s
           left == session_exit(after, outcome)
       IN  /\ active_sessions' = [active_sessions EXCEPT ![tasks[t].sid] = left]
           /\ Return(ScopeCall("scope", tasks[t].sid, outcome, scope_result(outcome),
                                left.state))
    /\ tasks' = [tasks EXCEPT ![t] = DoneTask]
    /\ UNCHANGED <<max_concurrent_sessions, session_stats, lock, now>>
    /\ UNCHANGED json_vars

\* update_player_stats: it never suspends
Update(t, id, d) ==
    /\ Starts(t)
    /\ IF id \in Registered(active_sessions)
       THEN LET r == update_player_stats(active_sessions[id], d, now)
            IN  /\ active_sessions' = [active_sessions EXCEPT ![id] = r.session]
                /\ Return(ScopeCall("update", id, r.outcome, r.result, r.session.state))
       ELSE /\ Return(Call("update", id, <<>>, "none", "False"))
            /\ UNCHANGED active_sessions
    /\ tasks' = [tasks EXCEPT ![t] = DoneTask]
    /\ UNCHANGED <<max_concurrent_sessions, session_stats, lock, now>>
    /\ UNCHANGED json_vars

Next ==
    \/ Tick
    \/ \E t \in Tasks, id \in SessionIds, d \in StatDicts : CreateAcquire(t, id, d)
    \/ \E t \in Tasks : CreateBody(t)
    \/ \E t \in Tasks, id \in SessionIds : ScopeEnter(t, id)
    \/ \E t \in Tasks, outcome \in {"return", "raise", "cancel"} : ScopeExit(t, outcome)
    \/ \E t \in Tasks, id \in SessionIds, d \in StatDicts : Update(t, id, d)

Spec == Init /\ [][Next]_vars

\* a caller of create_safe_response with its argument
InitJson ==
    /\ InitManager
    /\ response_data \in Inputs
    /\ response = NoResponse

\* the call of create_safe_response
Respond ==
    /\ response = NoResponse
    /\ response' = create_safe_response(response_data)
    /\ UNCHANGED <<max_concurrent_sessions, active_sessions, session_stats, lock, now, tasks,
                   returned, response_data>>

NextJson == Respond

SpecJson == InitJson /\ [][NextJson]_vars

\* the locked block of create_session has no suspension point: a task that
\* holds the lock runs it to its end
FairSpec == Spec /\ \A t \in Tasks : WF_vars(CreateBody(t))

\* ------------------------------------------------------------------ claims

\* the sessions get_session_summary counts as active
ActiveSessions == {i \in Registered(active_sessions) : active_sessions[i].state = "active"}

\* whether PlayerStats accepts a stats dictionary over the defaults
DataValid(d) ==
    PlayerStatsValid(Get(d, "health", default_health), Get(d, "level", default_level))

\* whether PlayerStats accepts a patch over the session's current stats
PatchValid(s, d) == PlayerStatsValid(Get(d, "health", s.health), Get(d, "level", s.level))

\* the mutable fields of a session
Fields(s) == <<s.health, s.mana, s.experience, s.level>>

\* the tasks inside a scope's body on id
InScope(id) == {t \in Tasks : tasks[t].pc = "body" /\ tasks[t].sid = id}

\* the step is create_session's locked block run by t, handing back result
CreateReturns(t, result) ==
    /\ CreateBody(t)
    /\ Return(Call("create", tasks[t].sid,
                   IF result \in {"created", "existing"} THEN tasks[t].data ELSE <<>>,
                   "none", result))

\* C1: the number of sessions in state active never exceeds the bound the
\* manager was built with, whatever creates, scopes and updates interleave.
C1_ActiveWithinBound == Cardinality(ActiveSessions) <= max_concurrent_sessions

\* C1 witness: the bound is reached and a further create has been turned away.
C1_Witness ==
    /\ Cardinality(ActiveSessions) = max_concurrent_sessions
    /\ \E c \in Returned : c.op = "create" /\ c.result = "RuntimeError"

\* C2: two callers are never inside the body of a scope on the same id at
\* the same time.
C2_OneScopePerSession == \A id \in SessionIds : Cardinality(InScope(id)) <= 1

\* C3: when the only writers of a session's counter field are N scopes that
\* each read it and write back the value plus one, and none is still in
\* flight, the field holds the value it was created with plus N.
C3_NoLostUpdates ==
    \A c \in Returned :
        ( /\ c.op = "create" /\ c.result = "created"
          /\ InScope(c.sid) = {}
          /\ ~ \E u \in Returned : u.op = "update" /\ u.sid = c.sid /\ u.result = "True" )
        => active_sessions[c.sid].experience
             = Get(c.data, "experience", default_experience)
               + Times(ScopeCall("scope", c.sid, "return", "ok", "completed"))
               + Times(ScopeCall("scope", c.sid, "return", "ok", "error"))

\* C4: once the failure of a scope's body has reached the caller, the session
\* is in state error, and a raw scope hands the failure on to its caller.
C4_ErroredAfterFailure ==
    \A c \in Returned :
        c.outcome = "raise" =>
            /\ active_sessions[c.sid].state = "error"
            /\ c.op = "scope" => c.result = "raised"

\* C4 witness: on one session a scope's body has failed and another scope has
\* ended normally.
C4_Witness ==
    \E c, u \in Returned :
        /\ c.op = "scope" /\ c.outcome = "raise" /\ c.result = "raised"
        /\ u.op = "scope" /\ u.outcome = "return" /\ u.sid = c.sid

\* C5: a create with an id that is already registered hands back the existing
\* session, in every state, the registry at its bound included.
C5_DuplicateCreateReturnsExisting ==
    [][\A t \in Tasks :
         (CreateBody(t) /\ tasks[t].sid \in Registered(active_sessions))
         => CreateReturns(t, "existing")]_vars

\* C6: a create with an id that is already registered changes neither the
\* registry (the stored session's fields included) nor the counters, and
\* raises no validation error, whatever fields it is given.
C6_CreateIdempotent ==
    [][\A t \in Tasks :
         (CreateBody(t) /\ tasks[t].sid \in Registered(active_sessions))
         => /\ active_sessions' = active_sessions
            /\ session_stats' = session_stats
            /\ CreateReturns(t, "existing") \/ CreateReturns(t, "RuntimeError")]_vars

\* C6 witness: a session was created with valid fields and a later create on
\* its id, with other fields that fail validation, handed the session back.
C6_Witness ==
    \E c, u \in Returned :
        /\ c.op = "create" /\ c.result = "created"
        /\ u.op = "create" /\ u.result = "existing" /\ u.sid = c.sid
        /\ u.data # c.data /\ ~DataValid(u.data)
        /\ session_stats.failed = 0

\* C7: a create of a new id is turned away for capacity exactly when the
\* number of sessions in state active is at least the bound.
C7_CapacityCountsActive ==
    [][\A t \in Tasks :
         (CreateBody(t) /\ tasks[t].sid \notin Registered(active_sessions))
         => (CreateReturns(t, "RuntimeError")
             <=> Cardinality(ActiveSessions) >= max_concurrent_sessions)]_vars

\* C8 as stated: a create of a new id with fields that fail validation fails
\* with a validation error and leaves the registry and the created and active
\* counters as they were.
C8_InvalidCreateRaisesValidation ==
    [][\A t \in Tasks :
         (/\ CreateBody(t)
          /\ tasks[t].sid \notin Registered(active_sessions)
          /\ ~DataValid(tasks[t].data))
         => /\ CreateReturns(t, "ValueError")
            /\ active_sessions' = active_sessions
            /\ session_stats'.created = session_stats.created
            /\ session_stats'.active = session_stats.active]_vars

\* C8 amended: a create of a new id with fields that fail validation fails,
\* with the capacity error when the registry is at its bound and with a
\* validation error otherwise, and leaves the registry and the created and
\* active counters as they were.
C8_InvalidCreateRegistersNothing ==
    [][\A t \in Tasks :
         (/\ CreateBody(t)
          /\ tasks[t].sid \notin Registered(active_sessions)
          /\ ~DataValid(tasks[t].data))
         => /\ IF AtCapacity(active_sessions, max_concurrent_sessions)
               THEN CreateReturns(t, "RuntimeError")
               ELSE CreateReturns(t, "ValueError")
            /\ active_sessions' = active_sessions
            /\ session_stats'.created = session_stats.created
            /\ session_stats'.active = session_stats.active]_vars

\* C8 witness: a create has failed validation beside a registered session.
C8_Witness ==
    /\ \E c \in Returned : c.op = "create" /\ c.result = "ValueError"
    /\ session_stats.failed > 0
    /\ Registered(active_sessions) # {}

\* C9: every registered session has a health of at least 0 and a level of at
\* least 1.
C9_StoredStatsValid ==
    \A i \in Registered(active_sessions) :
        active_sessions[i].health >= 0 /\ active_sessions[i].level >= 1

\* C9 witness: a session has taken an update and an update has been refused.
C9_Witness ==
    \E c, u \in Returned :
        /\ c.op = "update" /\ c.result = "True"
        /\ active_sessions[c.sid].level > default_level
        /\ u.op = "update" /\ u.outcome = "raise"

\* C10: an update whose patch fails validation leaves every mutable field of
\* the session as it was, leaves the session in state error and returns False.
C10_InvalidUpdatePersistsNothing ==
    [][\A t \in Tasks, id \in Registered(active_sessions), d \in StatDicts :
         (Update(t, id, d) /\ ~PatchValid(active_sessions[id], d))
         => /\ Fields(active_sessions'[id]) = Fields(active_sessions[id])
            /\ active_sessions'[id].state = "error"
            /\ Return(ScopeCall("update", id, "raise", "False", "error"))]_vars

\* C10 witness: an update has been refused and its session is in state error
\* with the mana it was created with.
C10_Witness ==
    \E c \in Returned :
        /\ c.op = "update" /\ c.outcome = "raise" /\ c.result = "False"
        /\ active_sessions[c.sid].state = "error"
        /\ active_sessions[c.sid].mana = default_mana

\* C11: once a scope on a session has exited, by its body returning, raising
\* or being cancelled, the session's state is completed or error.
C11_TerminalAfterExit ==
    \A c \in Returned :
        c.outcome \in {"return", "raise", "cancel"} =>
            /\ c.left \in {"completed", "error"}
            /\ active_sessions[c.sid].state \in {"completed", "error"}

\* C11 witness: a scope whose body was cancelled has exited while another
\* scope on the same session is still in its body.
C11_Witness ==
    \E c \in Returned :
        /\ c.op = "scope" /\ c.outcome = "cancel"
        /\ InScope(c.sid) # {}

\* C12: a scope whose body returns leaves the session completed, unless it
\* finds it in state error, which it keeps.
C12_NormalExitCompletes ==
    [][\A t \in Tasks :
         ScopeExit(t, "return")
         => active_sessions'[tasks[t].sid].state
              = IF active_sessions[tasks[t].sid].state = "error"
                THEN "error" ELSE "completed"]_vars

\* C12 witness: a scope's body has returned on a session in state error,
\* after writing the counter field, and the session is still in state error.
C12_Witness ==
    \E u \in Returned :
        /\ u.op = "scope" /\ u.outcome = "return" /\ u.left = "error"
        /\ active_sessions[u.sid].state = "error"
        /\ active_sessions[u.sid].experience > default_experience

\* C13: the entry of a scope on a registered session sets last_activity to
\* the current time and puts the session in state active, whatever state it
\* was in, so that the body runs on a session in state active.
C13_EntryMarksActive ==
    [][\A t \in Tasks, id \in Registered(active_sessions) :
         ScopeEnter(t, id)
         => /\ active_sessions'[id].last_activity = now
            /\ active_sessions'[id].state = "active"]_vars

\* the fields of PlayerStats a patch can name
StatNames == {"health", "mana", "experience", "level"}

\* the step ends a call of update_player_stats on id that hands back result
UpdateReturns(id, result) ==
    \E c \in DOMAIN returned' :
        c.op = "update" /\ c.sid = id /\ c.result = result /\ Return(c)

\* C14: update_player_stats hands back False when the id is not registered
\* or the patched stats fail validation, and True otherwise; on True each
\* field the patch names has the value given and every other field its
\* value of before.
C14_UpdateHelper ==
    [][\A t \in Tasks, id \in SessionIds, d \in StatDicts :
         Update(t, id, d)
         => IF id \notin Registered(active_sessions)
            THEN UpdateReturns(id, "False") /\ active_sessions' = active_sessions
            ELSE IF ~PatchValid(active_sessions[id], d)
            THEN UpdateReturns(id, "False")
            ELSE /\ UpdateReturns(id, "True")
                 /\ \A k \in StatNames :
                        active_sessions'[id][k] = Get(d, k, active_sessions[id][k])]_vars

\* C14 witness: an update on an unregistered id has handed back False, and an
\* update has handed back True on a session created with the default stats,
\* which now has the health of the patch and the mana it was created with.
C14_Witness ==
    \E c, u, v \in Returned :
        /\ c.op = "create" /\ c.result = "created" /\ c.data = <<>>
        /\ u.op = "update" /\ u.result = "True" /\ u.sid = c.sid
        /\ active_sessions[c.sid].health = 20
        /\ active_sessions[c.sid].mana = default_mana
        /\ v.op = "update" /\ v.result = "False" /\ v.outcome = "none"

\* the summary a caller gets in the current state
Summary == get_session_summary(active_sessions, session_stats, now)

\* the registered sessions in a given state
InState(st) == {i \in Registered(active_sessions) : active_sessions[i].state = st}

\* the seconds the registered sessions have lived, summed
Lifetimes == total_time(active_sessions, Registered(active_sessions), now)

\* C15: the counters of the summary agree with the registry: created is the
\* number of registered sessions, active the number of sessions in state
\* active, completed the number of sessions in state completed.
C15_CountersAgree ==
    /\ Summary.statistics.created = Cardinality(Registered(active_sessions))
    /\ Summary.statistics.active = Cardinality(InState("active"))
    /\ Summary.statistics.completed = Cardinality(InState("completed"))

\* C16 as stated: the summary's average lifetime is the mean in seconds of
\* now - created_at over all registered sessions, and 0 on an empty registry.
C16_AverageInSeconds ==
    LET avg == Summary.average_session_time
        n == Cardinality(Registered(active_sessions))
    IN  /\ avg.den > 0
        /\ IF n = 0 THEN avg.num = 0 ELSE avg.num * n = Lifetimes * avg.den

\* C16 amended: the summary's average lifetime is the mean in minutes of
\* now - created_at over all registered sessions whatever their state, and 0
\* on an empty registry.
C16_AverageInMinutes ==
    LET avg == Summary.average_session_time
        n == Cardinality(Registered(active_sessions))
    IN  /\ avg.den > 0
        /\ IF n = 0 THEN avg.num = 0 ELSE avg.num * 60 * n = Lifetimes * avg.den

\* C16 witness: the registry holds a session that is no longer active, time
\* has passed since a session was created, and the average is not 0.
C16_Witness ==
    /\ Registered(active_sessions) # InState("active")
    /\ Lifetimes > 0
    /\ Summary.average_session_time.num > 0

\* C18: a registered id stays registered, and its session keeps its id and
\* its created_at, in every step.
C18_RegisteredForGood ==
    [][\A i \in Registered(active_sessions) :
         /\ i \in Registered(active_sessions')
         /\ active_sessions'[i].id = i
         /\ active_sessions'[i].created_at = active_sessions[i].created_at]_vars

\* C18 witness: time has passed since a session was created, and a scope and
\* an update on it have ended since.
C18_Witness ==
    \E c, u \in Returned :
        /\ c.op = "scope" /\ c.outcome = "return"
        /\ u.op = "update" /\ u.result = "True" /\ u.sid = c.sid
        /\ active_sessions[c.sid].id = c.sid
        /\ active_sessions[c.sid].created_at < active_sessions[c.sid].last_activity

\* C20: a session in state error stays in state error in every step,
\* whatever create, scope or update does next.
C20_ErroredAbsorbing ==
    [][\A i \in Registered(active_sessions) :
         active_sessions[i].state = "error" => active_sessions'[i].state = "error"]_vars

\* C20 witness: on a session left in state error a scope has since ended
\* normally, an update has been applied and a create has returned it.
C20_Witness ==
    \E c, u, k \in Returned :
        /\ c.op = "scope" /\ c.outcome = "return" /\ c.left = "error"
        /\ u.op = "update" /\ u.sid = c.sid /\ u.left = "error"
        /\ k.op = "create" /\ k.sid = c.sid
        /\ active_sessions[c.sid].state = "error"

\* the tasks inside create_session
Creating == {t \in Tasks : tasks[t].pc = "create_locked"}

\* C19: the lock is free whenever no create is in progress, every end of
\* create_session's locked block leaves the lock free, and every create in
\* progress eventually returns or raises.
C19_LockReleased ==
    /\ [](Creating = {} => lock = NoTask)
    /\ [][\A t \in Tasks : CreateBody(t) => lock' = NoTask]_vars
    /\ \A t \in Tasks : (t \in Creating) ~> (tasks[t].pc = "done")

\* C19 witness: a create has raised the validation error, another has
\* returned an existing session, and the lock is free.
C19_Witness ==
    /\ lock = NoTask
    /\ Creating = {}
    /\ \E c, k \in Returned :
        /\ c.op = "create" /\ c.result = "ValueError"
        /\ k.op = "create" /\ k.result = "existing"

\* whether a value nests dictionaries, lists, scalars and None only
RECURSIVE PlainData(_)
PlainData(value) ==
    CASE value.kind = "other" -> FALSE
      [] value.kind = "list" -> \A i \in 1..Len(value.items) : PlainData(value.items[i])
      [] value.kind = "dict" -> \A k \in DOMAIN value.fields : PlainData(value.fields[k])
      [] OTHER -> TRUE

\* C17: for an argument that nests dictionaries, lists, scalars and None,
\* the text create_safe_response returns holds no null at any depth:
\* validate_response_format accepts it.
C17_NoNullInResponse ==
    (PlainData(response_data) /\ response.outcome = "returned")
        => validate_response_format(response.text)

====
